---------------------------- MODULE Spec2Model ----------------------------
(***************************************************************************)
(* Model of the express-minio example: src/app.ts and its near-duplicate   *)
(* src/unnamed/part_000.  One process (main -> init -> app.listen), the    *)
(* four routes, and the MinIO backend the process talks to.                *)
(*                                                                         *)
(* Granularity: an async function runs without interruption up to its next *)
(* `await`; every action below is one such run (or one stream event), with *)
(* the backend's answer to the awaited call chosen by the action that      *)
(* resumes the function.                                                   *)
(*                                                                         *)
(* Platform facts the model relies on (not code of this repository):       *)
(*  - Node >= 15: an unhandled promise rejection and an uncaught exception *)
(*    both end the process with exit status 1;                             *)
(*  - Express 4 does not observe the promise an async handler returns, so  *)
(*    a rejection is an unhandled rejection; Express 5 forwards it to the  *)
(*    default error handler, which answers 500.  The repository pins       *)
(*    neither, so both outcomes are possible (HandlerRejectionOutcomes);   *)
(*  - a Readable that emits 'error' with no 'error' listener throws;       *)
(*  - crypto.randomUUID() never returns a value it returned before.        *)
(***************************************************************************)
EXTENDS Naturals, Sequences, FiniteSets, Bags

(* ------------------------------ bounds --------------------------------- *)
MaxReqs == 2
MaxKeys == 2

Keys == 1..MaxKeys
\* request bodies: the same bytes in two orders
Payloads == { <<1, 2>>, <<2, 1>> }

(* --------------------------- configuration ----------------------------- *)
Undefined == "<undefined>"
EnvVals == { Undefined, "", "set" }
Variants == { "app.ts", "part_000" }

\* JavaScript's `!x` for a string-or-undefined x
Falsy(v) == v = Undefined \/ v = ""

PortStr == "9000"

\* app.ts line 49 / part_000 line 33
UseSSLStr(v) == IF v = "app.ts" THEN Undefined ELSE "false"

\* A faulty ConfigError: the secret-key check is missing.
ConfigErrorNoSecretCheck(v, e) ==
  IF Falsy(e.host) THEN (IF v = "app.ts" THEN "STORAGE_ENDPOINT" ELSE "MINIO_HOST")
  ELSE IF Falsy(PortStr) THEN "STORAGE_PORT"
  ELSE IF Falsy(e.accessKey) THEN (IF v = "app.ts" THEN "STORAGE_USER" ELSE "MINIO_USERNAME")
  ELSE IF UseSSLStr(v) = Undefined THEN "STORAGE_USE_SSL"
  ELSE "none"

\* The checks of init in their order; the text the failure names, or "none".
ConfigError(v, e) ==
  IF Falsy(e.host) THEN (IF v = "app.ts" THEN "STORAGE_ENDPOINT" ELSE "MINIO_HOST")
  ELSE IF Falsy(PortStr) THEN "STORAGE_PORT"
  ELSE IF Falsy(e.accessKey) THEN (IF v = "app.ts" THEN "STORAGE_USER" ELSE "MINIO_USERNAME")
  ELSE IF Falsy(e.secretKey) THEN (IF v = "app.ts" THEN "STORAGE_PASSWORD" ELSE "MINIO_PASSWORD")
  ELSE IF UseSSLStr(v) = Undefined THEN "STORAGE_USE_SSL"
  ELSE "none"

(* ------------------------------ backend -------------------------------- *)
NoPolicy == {}
PolicyAllowAllRead ==
  { [Action |-> "s3:GetObject", Effect |-> "Allow", Principal |-> "*",
     Resource |-> "arn:aws:s3:::bucket/*"] }
\* a policy an operator configured by hand: read for one named principal
ManualPolicy ==
  { [Action |-> "s3:GetObject", Effect |-> "Allow", Principal |-> "arn:aws:iam::ops",
     Resource |-> "arn:aws:s3:::bucket/*"] }

Call(op, arg) == [op |-> op, arg |-> arg]

\* A faulty SetBucketPolicy: the policy document never reaches the bucket.
SetBucketPolicyLost(b, doc) == b

\* minioClient.setBucketPolicy(bucketName, doc): the bucket afterwards
SetBucketPolicy(b, doc) == [b EXCEPT !.policy = doc]

\* A faulty CreatesBucket: init creates the bucket whatever the answer.
CreatesBucketAlways(exists) == TRUE

\* init: `if (!bucketExists)`
CreatesBucket(exists) == ~exists

\* A faulty RandomUUID: a generator that may repeat a value.
RandomUUIDRepeats(issued) == Keys

\* crypto.randomUUID(): the values a call may return, given those returned so far
RandomUUID(issued) == Keys \ issued

\* A faulty PutObject: the first chunk of the body is lost.
PutObjectDropsHead(st, key, body) ==
  [k \in DOMAIN st \cup {key} |-> IF k = key THEN Tail(body) ELSE st[k]]

\* minioClient.putObject(bucketName, key, req): the object store afterwards
PutObject(st, key, body) ==
  [k \in DOMAIN st \cup {key} |-> IF k = key THEN body ELSE st[k]]

RECURSIVE SortedKeys(_)
\* the keys of a set in the backend's (ascending) order
SortedKeys(S) ==
  IF S = {} THEN << >>
  ELSE LET m == CHOOSE k \in S : \A j \in S : k <= j
       IN << m >> \o SortedKeys(S \ {m})

\* A faulty ListObjects: the first object of the bucket is not listed.
ListObjectsSkipsFirst(st) == IF DOMAIN st = {} THEN << >> ELSE Tail(SortedKeys(DOMAIN st))

\* minioClient.listObjects(bucketName): the names the stream delivers, in
\* order, for the objects the bucket holds when the backend answers
ListObjects(st) == SortedKeys(DOMAIN st)

Names(seq) == { seq[i] : i \in 1..Len(seq) }

\* the path /objects/NAME
ObjectPath(name) == [prefix |-> "objects", name |-> name]
NoPath == [prefix |-> "", name |-> 0]

\* the <li><a href="/objects/NAME">NAME</a></li> items of the index page
RenderIndex(objects) ==
  [i \in 1..Len(objects) |-> [href |-> ObjectPath(objects[i]), text |-> objects[i]]]

\* the text answered by POST /upload, as the locator it contains
UploadReply(key) == ObjectPath(key)

\* req.params.objectName of the route /objects/:objectName
ObjectNameOf(path) == path.name

HandlerRejectionOutcomes == { "unhandledRejection", "errorHandler" }

(* ------------------------------- state --------------------------------- *)
VARIABLES
  variant,      \* which source file the process runs
  env,          \* process.env: MINIO_HOST, MINIO_USERNAME, MINIO_PASSWORD
  bucket,       \* backend: [exists, policy] of the target bucket
  store,        \* backend: object key -> bytes, for the keys stored
  pc,           \* where main/init stands
  exitCode,     \* the exit status of the process once pc = "exited"
  exitCause,    \* what ended the process
  minioClient,  \* the module-level client handle
  errMsg,       \* the setting the configuration failure names
  calls,        \* backend calls init has issued in this process, in order
  existedAtCheck, \* what bucketExists answered: "unknown", "yes", "no"
  initRuns,     \* how often init was entered in this process
  initDone,     \* init's promise resolved in this process
  listenerStarted, \* app.listen was called in this process
  policyAtStart,\* the bucket's [exists, policy] when this process started
  reqs,         \* the requests in flight or answered: a bag of records
  issued,       \* every key an upload handler has generated
  uploaded      \* every (key, body) an upload answered 200 for

vars == << variant, env, bucket, store, pc, exitCode, exitCause, minioClient,
           errMsg, calls, existedAtCheck, initRuns, initDone, listenerStarted,
           policyAtStart, reqs, issued, uploaded >>

config == << variant, env >>
backend == << bucket, store >>
history == << issued, uploaded >>

\* A request: where its handler stands (phase), what it holds (key: the
\* generated or requested object name; body: the request's bytes, or the
\* object's stream; objects: the listing collected) and, once answered, the
\* response (status, locator, sent bytes, page, err for the failure behind a 500).
\* `owed` notes, for a listing, the keys uploads had answered 200 for when
\* the request arrived, until the page carries them.
Request == [phase |-> "new", route |-> "", key |-> 0, body |-> <<>>, objects |-> <<>>,
            owed |-> {}, status |-> 0, locator |-> NoPath, sent |-> <<>>,
            page |-> <<>>, err |-> ""]

Active == BagToSet(reqs)
One(q) == SetToBag({q})
Become(q, n) == reqs' = (reqs (-) One(q)) (+) One(n)

Init ==
  /\ variant \in Variants
  /\ env \in [host : EnvVals, accessKey : EnvVals, secretKey : EnvVals]
  /\ bucket \in { [exists |-> FALSE, policy |-> NoPolicy],
                  [exists |-> TRUE, policy |-> PolicyAllowAllRead],
                  [exists |-> TRUE, policy |-> ManualPolicy] }
  /\ store = << >>
  /\ pc = "boot"
  /\ exitCode = 0
  /\ exitCause = ""
  /\ minioClient = Undefined
  /\ errMsg = "none"
  /\ calls = << >>
  /\ existedAtCheck = "unknown"
  /\ initRuns = 0
  /\ initDone = FALSE
  /\ listenerStarted = FALSE
  /\ policyAtStart = bucket
  /\ reqs = EmptyBag
  /\ issued = {}
  /\ uploaded = {}

(* ------------------------------ process -------------------------------- *)
\* process.exit(code), or the runtime ending the process: every connection
\* the process held is dropped with it
Exit(code, cause) ==
  /\ pc' = "exited"
  /\ exitCode' = code
  /\ exitCause' = cause
  /\ reqs' = EmptyBag

\* main() enters init(), which runs up to its first await: the checks of the
\* settings, the construction of the client, the first backend call
StartInit ==
  /\ pc = "boot"
  /\ initRuns' = initRuns + 1
  /\ LET m == ConfigError(variant, env) IN
       IF m # "none"
       THEN /\ errMsg' = m
            /\ Exit(1, "config")
            /\ UNCHANGED << minioClient, calls >>
       ELSE /\ minioClient' = "client"
            /\ IF variant = "part_000"
               THEN calls' = Append(calls, Call("listBuckets", NoPolicy)) /\ pc' = "listBuckets"
               ELSE calls' = Append(calls, Call("bucketExists", NoPolicy)) /\ pc' = "bucketExists"
            /\ UNCHANGED << errMsg, exitCode, exitCause, reqs >>
  /\ UNCHANGED << config, backend, history, existedAtCheck, initDone,
                  listenerStarted, policyAtStart >>

\* part_000: `await minioClient.listBuckets()` resolves
ListBucketsResolve ==
  /\ pc = "listBuckets"
  /\ calls' = Append(calls, Call("bucketExists", NoPolicy))
  /\ pc' = "bucketExists"
  /\ UNCHANGED << config, backend, history, exitCode, exitCause, minioClient, errMsg,
                  existedAtCheck, initRuns, initDone, listenerStarted,
                  policyAtStart, reqs >>

\* `await minioClient.bucketExists(bucketName)` resolves
BucketExistsResolve ==
  /\ pc = "bucketExists"
  /\ existedAtCheck' = IF bucket.exists THEN "yes" ELSE "no"
  /\ IF CreatesBucket(bucket.exists)
     THEN /\ calls' = Append(calls, Call("makeBucket", NoPolicy))
          /\ pc' = "makeBucket"
          /\ UNCHANGED initDone
     ELSE /\ initDone' = TRUE
          /\ pc' = "initDone"
          /\ UNCHANGED calls
  /\ UNCHANGED << config, backend, history, exitCode, exitCause, minioClient, errMsg,
                  initRuns, listenerStarted, policyAtStart, reqs >>

\* `await minioClient.makeBucket(bucketName)` resolves
MakeBucketResolve ==
  /\ pc = "makeBucket"
  /\ ~bucket.exists
  /\ bucket' = [exists |-> TRUE, policy |-> NoPolicy]
  /\ calls' = Append(calls, Call("setBucketPolicy", PolicyAllowAllRead))
  /\ pc' = "setBucketPolicy"
  /\ UNCHANGED << config, store, history, exitCode, exitCause, minioClient, errMsg,
                  existedAtCheck, initRuns, initDone, listenerStarted,
                  policyAtStart, reqs >>

\* `await minioClient.setBucketPolicy(bucketName, ...)` resolves
SetBucketPolicyResolve ==
  /\ pc = "setBucketPolicy"
  /\ bucket' = SetBucketPolicy(bucket, calls[Len(calls)].arg)
  /\ initDone' = TRUE
  /\ pc' = "initDone"
  /\ UNCHANGED << config, store, history, exitCode, exitCause, minioClient, errMsg,
                  calls, existedAtCheck, initRuns, listenerStarted,
                  policyAtStart, reqs >>

\* The call init awaits rejects: init rejects (part_000 logs and rethrows),
\* main rejects, nothing handles the rejection and the process ends.
InitCallRejects ==
  /\ pc \in { "listBuckets", "bucketExists", "makeBucket", "setBucketPolicy" }
  /\ Exit(1, "init")
  /\ UNCHANGED << config, backend, history, minioClient, errMsg, calls,
                  existedAtCheck, initRuns, initDone, listenerStarted,
                  policyAtStart >>

\* A faulty MainAwaitsInit: main calls init() without awaiting it.
MainDoesNotAwaitInit ==
  pc \in { "listBuckets", "bucketExists", "makeBucket", "setBucketPolicy", "initDone" }

\* main: `await init();` stands before app.listen
MainAwaitsInit == pc = "initDone"

\* main: app.listen(...)
Listen ==
  /\ MainAwaitsInit
  /\ pc' = "listening"
  /\ listenerStarted' = TRUE
  /\ UNCHANGED << config, backend, history, exitCode, exitCause, minioClient, errMsg,
                  calls, existedAtCheck, initRuns, initDone, policyAtStart,
                  reqs >>

\* The operator (or the platform) starts the program again; the backend keeps
\* its state, the process starts from nothing.
Restart ==
  /\ pc = "exited"
  /\ pc' = "boot"
  /\ exitCode' = 0
  /\ exitCause' = ""
  /\ minioClient' = Undefined
  /\ errMsg' = "none"
  /\ calls' = << >>
  /\ existedAtCheck' = "unknown"
  /\ initRuns' = 0
  /\ initDone' = FALSE
  /\ listenerStarted' = FALSE
  /\ policyAtStart' = bucket
  /\ UNCHANGED << config, backend, history, reqs >>

boot == << exitCode, exitCause, minioClient, errMsg, calls, existedAtCheck, initRuns,
           initDone, listenerStarted, policyAtStart >>

(* ------------------------------ handlers ------------------------------- *)
\* a request arrives while the listener accepts and a connection is free
Accepts == pc = "listening" /\ BagCardinality(reqs) < MaxReqs

\* res.end(): the response of q is complete
Answered(q, status) == [Request EXCEPT !.phase = "done", !.route = q.route, !.status = status]

\* A handler's promise rejects with `err`: what happens to request q and to
\* the process, by what the framework does with the rejection
HandlerRejects(q, err, outcome) ==
  IF outcome = "unhandledRejection"
  THEN Exit(1, err)
  ELSE /\ Become(q, [Answered(q, 500) EXCEPT !.err = err])
       /\ UNCHANGED << pc, exitCode, exitCause >>

\* GET /
Home ==
  /\ Accepts
  /\ reqs' = reqs (+) One([Answered(Request, 200) EXCEPT !.route = "home"])
  /\ UNCHANGED << config, backend, history, pc, boot >>

\* POST /upload, up to `await minioClient.putObject(...)`
UploadStart ==
  /\ Accepts
  /\ \E body \in Payloads : \E k \in RandomUUID(issued) :
       /\ reqs' = reqs (+) One([Request EXCEPT !.phase = "putObject", !.route = "upload",
                                               !.key = k, !.body = body])
       /\ issued' = issued \cup {k}
  /\ UNCHANGED << config, backend, uploaded, pc, boot >>

\* putObject resolves: the object is stored and the handler answers
UploadResolve(q) ==
  /\ q.phase = "putObject"
  /\ store' = PutObject(store, q.key, q.body)
  /\ Become(q, [Answered(q, 200) EXCEPT !.locator = UploadReply(q.key)])
  /\ uploaded' = uploaded \cup { [key |-> q.key, body |-> q.body] }
  /\ UNCHANGED << config, bucket, issued, pc, boot >>

\* putObject rejects
UploadReject(q) ==
  /\ q.phase = "putObject"
  /\ \E o \in HandlerRejectionOutcomes : HandlerRejects(q, "putObject failed", o)
  /\ UNCHANGED << config, backend, history, minioClient, errMsg, calls, existedAtCheck,
                  initRuns, initDone, listenerStarted, policyAtStart >>

\* GET /objects/:objectName, up to `await minioClient.getObject(...)`
FetchStart ==
  /\ Accepts
  /\ \E k \in Keys :
       reqs' = reqs (+) One([Request EXCEPT !.phase = "getObject", !.route = "fetch",
                                            !.key = ObjectNameOf(ObjectPath(k))])
  /\ UNCHANGED << config, backend, history, pc, boot >>

\* getObject resolves with the object's stream; the handler pipes it
GetObjectResolve(q) ==
  /\ q.phase = "getObject"
  /\ q.key \in DOMAIN store
  /\ Become(q, [q EXCEPT !.phase = "pipe", !.body = store[q.key]])
  /\ UNCHANGED << config, backend, history, pc, boot >>

\* getObject rejects: the key is absent (NoSuchKey), or the backend failed
GetObjectReject(q) ==
  /\ q.phase = "getObject"
  /\ \E o \in HandlerRejectionOutcomes :
       HandlerRejects(q, IF q.key \in DOMAIN store THEN "getObject failed" ELSE "NoSuchKey", o)
  /\ UNCHANGED << config, backend, history, minioClient, errMsg, calls, existedAtCheck,
                  initRuns, initDone, listenerStarted, policyAtStart >>

\* the piped stream ends: the response is complete
PipeEnd(q) ==
  /\ q.phase = "pipe"
  /\ Become(q, [Answered(q, 200) EXCEPT !.key = q.key, !.sent = q.body])
  /\ UNCHANGED << config, backend, history, pc, boot >>

\* the piped stream emits 'error': nothing listens for it
PipeError(q) ==
  /\ q.phase = "pipe"
  /\ Exit(1, "stream error")
  /\ UNCHANGED << config, backend, history, minioClient, errMsg, calls, existedAtCheck,
                  initRuns, initDone, listenerStarted, policyAtStart >>

\* GET /objects, up to the registration of the stream's listeners
ListStart ==
  /\ Accepts
  /\ reqs' = reqs (+) One([Request EXCEPT !.phase = "list", !.route = "list",
                                          !.owed = { u.key : u \in uploaded }])
  /\ UNCHANGED << config, backend, history, pc, boot >>

\* stream.on('data'), once per object the backend's answer holds (the stream
\* delivers them in one burst): objects.push(obj)
ListData(q) ==
  /\ q.phase = "list"
  /\ Become(q, [q EXCEPT !.phase = "listed", !.objects = ListObjects(store)])
  /\ UNCHANGED << config, backend, history, pc, boot >>

\* stream.on('end'): the index page is written
ListEnd(q) ==
  /\ q.phase = "listed"
  /\ LET page == RenderIndex(q.objects) IN
       Become(q, [Answered(q, 200) EXCEPT
                    !.page = page,
                    !.owed = q.owed \ { ObjectNameOf(l.href) : l \in Names(page) }])
  /\ UNCHANGED << config, backend, history, pc, boot >>

\* stream.on('error'): res.status(500).end('Something went wrong!')
ListError(q) ==
  /\ q.phase \in { "list", "listed" }
  /\ Become(q, [Answered(q, 500) EXCEPT !.err = "listObjects failed"])
  /\ UNCHANGED << config, backend, history, pc, boot >>

\* the client has its response; the connection is free for the next request
Close(q) ==
  /\ q.phase = "done"
  /\ reqs' = reqs (-) One(q)
  /\ UNCHANGED << config, backend, history, pc, boot >>

Next ==
  \/ StartInit
  \/ ListBucketsResolve
  \/ BucketExistsResolve
  \/ MakeBucketResolve
  \/ SetBucketPolicyResolve
  \/ InitCallRejects
  \/ Listen
  \/ Restart
  \/ Home
  \/ UploadStart
  \/ FetchStart
  \/ ListStart
  \/ \E q \in Active : UploadResolve(q)
  \/ \E q \in Active : UploadReject(q)
  \/ \E q \in Active : GetObjectResolve(q)
  \/ \E q \in Active : GetObjectReject(q)
  \/ \E q \in Active : PipeEnd(q)
  \/ \E q \in Active : PipeError(q)
  \/ \E q \in Active : ListData(q)
  \/ \E q \in Active : ListEnd(q)
  \/ \E q \in Active : ListError(q)
  \/ \E q \in Active : Close(q)

Spec == Init /\ [][Next]_vars

(* ------------------------------- claims -------------------------------- *)
\* the calls of init that change the bucket, in the order issued
BucketCalls == SelectSeq(calls, LAMBDA c : c.op \in { "makeBucket", "setBucketPolicy" })

\* the settings of StorageConfig that are missing or empty
Missing == { f \in { "host", "accessKey", "secretKey" } : Falsy(env[f]) }

\* the StorageConfig field a configuration failure's text names
FieldNamed(msg) ==
  CASE msg \in { "STORAGE_ENDPOINT", "MINIO_HOST" } -> "host"
    [] msg \in { "STORAGE_USER", "MINIO_USERNAME" } -> "accessKey"
    [] msg \in { "STORAGE_PASSWORD", "MINIO_PASSWORD" } -> "secretKey"
    [] msg = "STORAGE_PORT" -> "port"
    [] msg = "STORAGE_USE_SSL" -> "useTLS"
    [] OTHER -> "none"

\* C1: the listener is started only once init has run exactly once and its
\* promise has resolved; a process whose init failed (a setting missing, or
\* a backend call of init rejected) has exited without ever starting the
\* listener; and a request is handled only by a process that holds the
\* storage client.
C1_ListenOnlyAfterInit ==
  /\ initRuns <= 1
  /\ (pc = "listening" \/ listenerStarted) =>
       (initRuns = 1 /\ initDone /\ minioClient # Undefined)
  /\ exitCause \in { "config", "init" } =>
       (pc = "exited" /\ ~listenerStarted /\ ~initDone /\ reqs = EmptyBag)
  /\ reqs # EmptyBag => (pc = "listening" /\ minioClient # Undefined)

C1_Witness ==
  /\ pc = "listening"
  /\ Len(calls) = 4
  /\ \E q \in Active : q.phase = "putObject"

\* C2: once init has the answer of bucketExists: if the bucket did not
\* exist, the bucket-changing calls init issues are one makeBucket and then
\* one setBucketPolicy carrying the anonymous-read policy (all of them once
\* init has completed, a prefix of them while it runs or when a call failed);
\* if the bucket existed, init issues neither call and the bucket's policy is
\* the one it had when the process started.
C2_CreateThenPolicyOrNothing ==
  /\ existedAtCheck = "unknown" => BucketCalls = << >>
  /\ existedAtCheck = "yes" => (BucketCalls = << >> /\ bucket = policyAtStart)
  /\ existedAtCheck = "no" =>
       /\ ~policyAtStart.exists
       /\ BucketCalls \in { << Call("makeBucket", NoPolicy) >>,
                            << Call("makeBucket", NoPolicy),
                               Call("setBucketPolicy", PolicyAllowAllRead) >> }
       /\ initDone => (Len(BucketCalls) = 2 /\ bucket.policy = PolicyAllowAllRead)

C2_Witness ==
  /\ pc = "listening"
  /\ existedAtCheck = "no"
  /\ Len(BucketCalls) = 2

\* C3: when exactly one of host, access key and secret key is missing or
\* empty, init ends the process with a non-zero status and a failure that
\* names that field, the client is never constructed and no backend call
\* is issued.
C3_OneMissingSettingIsFatal ==
  (initRuns = 1 /\ Cardinality(Missing) = 1) =>
    /\ pc = "exited"
    /\ exitCause = "config"
    /\ exitCode # 0
    /\ Missing = { FieldNamed(errMsg) }
    /\ minioClient = Undefined
    /\ calls = << >>

C3_Witness ==
  /\ variant = "part_000"
  /\ Missing = { "secretKey" }
  /\ pc = "exited"
  /\ errMsg = "MINIO_PASSWORD"

\* C4: with host, access key and secret key set (the TLS flag and the port
\* are never read from the environment), init does not fail on the
\* configuration and constructs the storage client.
C4_DefaultsAccepted ==
  (initRuns = 1 /\ Missing = {}) =>
    (errMsg = "none" /\ exitCause # "config" /\ minioClient # Undefined)

\* C5: a fetch answered 200 for a key an upload answered 200 for carries
\* exactly the bytes of that upload's request, in their order, whatever
\* other requests ran in between.
C5_RoundTrip ==
  \A q \in Active :
    (q.route = "fetch" /\ q.phase = "done" /\ q.status = 200) =>
      /\ \E u \in uploaded : u.key = q.key
      /\ \A u \in uploaded : u.key = q.key => q.sent = u.body

C5_Witness ==
  /\ Cardinality(uploaded) = 2
  /\ \E q \in Active :
       /\ q.route = "fetch" /\ q.phase = "done" /\ q.status = 200
       /\ q.sent = << 2, 1 >>
  /\ \E q \in Active : q.phase = "putObject" \/ q.route = "list"

\* C6: two uploads never hold the same generated key, a key in use by an
\* upload in flight holds no object yet, and the object under every key an
\* upload answered 200 for is the body of that upload's request.
C6_DistinctKeysNoCrossTalk ==
  /\ \A q \in Active : q.phase = "putObject" =>
       /\ CopiesIn(q, reqs) = 1
       /\ q.key \notin DOMAIN store
       /\ \A p \in Active : (p.phase = "putObject" /\ p # q) => p.key # q.key
  /\ \A u, v \in uploaded : u.key = v.key => u = v
  /\ DOMAIN store = { u.key : u \in uploaded }
  /\ \A u \in uploaded : store[u.key] = u.body

\* two uploads of different bodies are in flight at once
C6_Witness ==
  \E p, q \in Active :
    /\ p.phase = "putObject" /\ p.body = << 1, 2 >>
    /\ q.phase = "putObject" /\ q.body = << 2, 1 >>

\* C7: a fetch of a key that holds no object is answered 404 and does not
\* end the process.
C7_AbsentKeyIs404 ==
  /\ exitCause # "NoSuchKey"
  /\ \A q \in Active : (q.phase = "done" /\ q.err = "NoSuchKey") => q.status = 404

\* C8: a failure of the backend's put, get or list call during a request is
\* answered 500 to that caller and does not end the process.
C8_BackendFailureIs500 ==
  /\ exitCause \notin { "putObject failed", "getObject failed", "stream error" }
  /\ \A q \in Active :
       (q.phase = "done" /\ q.err \in { "putObject failed", "getObject failed",
                                        "listObjects failed" }) => q.status = 500

\* C9: the listing a GET /objects collects holds every key an upload had
\* answered 200 for when the request arrived; the page answered with 200
\* carries each of them, every link's text is the key its path leads to, and
\* every key on the page holds an object, so that a fetch of it resolves.
C9_ListingComplete ==
  \A q \in Active :
    /\ (q.route = "list" /\ q.phase = "listed") => q.owed \subseteq Names(q.objects)
    /\ (q.route = "list" /\ q.phase = "done" /\ q.status = 200) =>
         /\ q.owed = {}
         /\ \A l \in Names(q.page) :
              /\ l.text = ObjectNameOf(l.href)
              /\ l.href.prefix = "objects"
              /\ ObjectNameOf(l.href) \in DOMAIN store

C9_Witness ==
  \E q \in Active :
    /\ q.route = "list" /\ q.phase = "done" /\ q.status = 200
    /\ Len(q.page) = 2
    /\ Cardinality(uploaded) = 2

\* C10 as stated: whenever the listener accepts requests the bucket exists
\* and carries the anonymous-read policy, and a failed init is not run again
\* in the same process.
C10_ListeningImpliesAnonymousRead ==
  /\ pc = "listening" => (bucket.exists /\ bucket.policy = PolicyAllowAllRead)
  /\ initRuns <= 1

\* C10 as amended: whenever the listener accepts requests the bucket exists;
\* it carries the anonymous-read policy if this process's init created it,
\* and otherwise the policy (or none) it had when the process started; and
\* a failed init is not run again in the same process.
C10_ListeningImpliesBucket ==
  /\ pc = "listening" =>
       /\ bucket.exists
       /\ existedAtCheck \in { "yes", "no" }
       /\ existedAtCheck = "no" => bucket.policy = PolicyAllowAllRead
       /\ existedAtCheck = "yes" => bucket.policy = policyAtStart.policy
  /\ initRuns <= 1
  /\ exitCause \in { "config", "init" } => pc = "exited"

\* the listener accepts requests with a bucket that an earlier start created
\* and left without a policy
C10_Witness ==
  /\ pc = "listening"
  /\ bucket.policy = NoPolicy
  /\ reqs # EmptyBag

=============================================================================
